---- MODULE Spec2Model ----
(***************************************************************************)
(* A model of four components of the engine:                               *)
(*   - VulkanUtility::cutRange / rangeOverlaps, the subresource range      *)
(*     partitioner (BsVulkanUtility.cpp), checked under SpecRange;         *)
(*   - GpuResourcePool, the pool of render textures and storage buffers    *)
(*     (BsGpuResourcePool.cpp, held in BsScriptCodeImporter.h from line    *)
(*     34 on), checked under Spec;                                         *)
(*   - ct::HardwareBufferManager, the cache of vertex declarations         *)
(*     (held in BsVulkanUtility.cpp from line 696 on), checked under       *)
(*     SpecDecl;                                                           *)
(*   - InspectableField, the tree of inspector fields                      *)
(*     (InspectableField.cs), checked under SpecField.                     *)
(***************************************************************************)
EXTENDS Integers, Sequences, FiniteSets, TLC

VARIABLES
    \* ---- range partitioner (one call of VulkanUtility::cutRange) ----
    toCut,      \* the VkImageSubresourceRange argument toCut
    cutWith,    \* the VkImageSubresourceRange argument cutWith
    output,     \* the ranges written to output[0 .. numAreas-1], in order
    numAreas,   \* the out-parameter numAreas
    rpc,        \* "call": arguments chosen, "done": cutRange has returned,
                \* "overlaps": rangeOverlaps has returned
    overlapCalls, \* the calls of rangeOverlaps made so far: arguments and result
    \* ---- GpuResourcePool ----
    textureDescs, \* the POOLED_RENDER_TEXTURE_DESC values this run's callers pass
    bufferDescs,  \* the POOLED_STORAGE_BUFFER_DESC values this run's callers pass
    poolAlive,  \* FALSE once ~GpuResourcePool has run
    mTextures,  \* the keys of GpuResourcePool::mTextures, in iteration order
    mBuffers,   \* the keys of GpuResourcePool::mBuffers, in iteration order
    heap,       \* the PooledRenderTexture / PooledStorageBuffer objects, by address
    last,       \* history: the latest get() and whether its result was released
    \* ---- ct::HardwareBufferManager, the cache of vertex declarations ----
    mCachedDeclarations, \* the entries of the map: key (element list), declaration
    declarations, \* the VertexDeclaration objects constructed so far, in order
    declCalls,  \* history: the calls of createVertexDeclaration(elements, deviceMask)
    \* ---- InspectableField ----
    children,   \* InspectableField.children of every field
    parent,     \* InspectableField.parent of every field
    destroyedLast, \* history: the field whose Destroy() was the latest call
    stackOverflow  \* TRUE once a Destroy() has recursed without end

rangeVars == <<toCut, cutWith, output, numAreas, rpc, overlapCalls>>

poolVars == <<textureDescs, bufferDescs, poolAlive, mTextures, mBuffers, heap, last>>

declVars == <<mCachedDeclarations, declarations, declCalls>>

fieldVars == <<children, parent, destroyedLast, stackOverflow>>

vars == <<toCut, cutWith, output, numAreas, rpc, overlapCalls,
          textureDescs, bufferDescs, poolAlive, mTextures, mBuffers, heap, last,
          mCachedDeclarations, declarations, declCalls,
          children, parent, destroyedLast, stackOverflow>>

\* the variables of a component that a specification does not run
DeclUnused ==
    mCachedDeclarations = {} /\ declarations = << >> /\ declCalls = << >>

FieldUnused ==
    children = << >> /\ parent = << >> /\ destroyedLast = 0
    /\ stackOverflow = FALSE

-----------------------------------------------------------------------------
(* Bounds of the range model. *)
MaxBase == 2
MaxCutBase == 4
MaxCount == 4

\* std::array<VkImageSubresourceRange, 5>& output
OutputCapacity == 5

\* VkImageSubresourceRange: the four integers the partitioner reads.
Ranges(maxBase) ==
    [baseArrayLayer : 0..maxBase, layerCount : 0..MaxCount,
     baseMipLevel : 0..maxBase, levelCount : 0..MaxCount]

NoRange == [baseArrayLayer |-> 0, layerCount |-> 0, baseMipLevel |-> 0, levelCount |-> 0]

-----------------------------------------------------------------------------
(* cutHorizontal, lines 548-596: the cut along the array-layer axis.       *)

\* the guard of the left piece (line 556)
leftCutMade(toCutR, leftCut) ==
    leftCut > 0 /\ leftCut < toCutR.baseArrayLayer + toCutR.layerCount

\* rightCutMade with the bound compared non-strictly
rightCutMade_NonStrict(toCutR, rightCut) ==
    rightCut > 0 /\ rightCut <= toCutR.layerCount

\* the guard of the right piece (line 567)
rightCutMade(toCutR, rightCut) ==
    rightCut > 0 /\ rightCut < toCutR.layerCount

\* middleLayerCount with the right piece's width subtracted as an offset
middleLayerCount_RightOffset(toCutR, leftCut, rightCut) ==
    toCutR.layerCount - rightCut - leftCut

\* the layer count of the middle piece (line 585)
middleLayerCount(toCutR, leftCut, rightCut) ==
    toCutR.layerCount - (toCutR.layerCount - rightCut) - leftCut

cutHorizontal(toCutR, cutWithR) ==
    LET leftCut == cutWithR.baseArrayLayer - toCutR.baseArrayLayer
        rightCut == (cutWithR.baseArrayLayer + cutWithR.layerCount) - toCutR.baseArrayLayer
        left == IF leftCutMade(toCutR, leftCut)
                THEN << [toCutR EXCEPT !.baseArrayLayer = toCutR.baseArrayLayer,
                                       !.layerCount = leftCut] >>
                ELSE << >>
        right == IF rightCutMade(toCutR, rightCut)
                 THEN << [toCutR EXCEPT !.baseArrayLayer = toCutR.baseArrayLayer + rightCut,
                                        !.layerCount = toCutR.layerCount - rightCut] >>
                 ELSE << >>
        sides == left \o right
        middle == IF Len(sides) = 2
                  THEN << [toCutR EXCEPT !.baseArrayLayer = toCutR.baseArrayLayer + leftCut,
                                         !.layerCount = middleLayerCount(toCutR, leftCut, rightCut)] >>
                  ELSE << >>
        cuts == sides \o middle
    IN  IF Len(cuts) = 0 THEN << toCutR >> ELSE cuts

(* cutVertical, lines 598-646: the cut along the mip-level axis.           *)

\* the guard of the top piece (line 606)
topCutMade(toCutR, topCut) ==
    topCut > 0 /\ topCut < toCutR.baseMipLevel + toCutR.levelCount

\* bottomCutMade with the bound compared non-strictly
bottomCutMade_NonStrict(toCutR, bottomCut) ==
    bottomCut > 0 /\ bottomCut <= toCutR.levelCount

\* the guard of the bottom piece (line 617)
bottomCutMade(toCutR, bottomCut) ==
    bottomCut > 0 /\ bottomCut < toCutR.levelCount

\* middleLevelCount without the levels of the bottom piece subtracted
middleLevelCount_ToTheEnd(toCutR, topCut, bottomCut) ==
    toCutR.levelCount - topCut

\* the level count of the middle piece (line 635)
middleLevelCount(toCutR, topCut, bottomCut) ==
    toCutR.levelCount - (toCutR.levelCount - bottomCut) - topCut

cutVertical(toCutR, cutWithR) ==
    LET topCut == cutWithR.baseMipLevel - toCutR.baseMipLevel
        bottomCut == (cutWithR.baseMipLevel + cutWithR.levelCount) - toCutR.baseMipLevel
        top == IF topCutMade(toCutR, topCut)
               THEN << [toCutR EXCEPT !.baseMipLevel = toCutR.baseMipLevel,
                                      !.levelCount = topCut] >>
               ELSE << >>
        bottom == IF bottomCutMade(toCutR, bottomCut)
                  THEN << [toCutR EXCEPT !.baseMipLevel = toCutR.baseMipLevel + bottomCut,
                                         !.levelCount = toCutR.levelCount - bottomCut] >>
                  ELSE << >>
        sides == top \o bottom
        middle == IF Len(sides) = 2
                  THEN << [toCutR EXCEPT !.baseMipLevel = toCutR.baseMipLevel + topCut,
                                         !.levelCount = middleLevelCount(toCutR, topCut, bottomCut)] >>
                  ELSE << >>
        cuts == sides \o middle
    IN  IF Len(cuts) = 0 THEN << toCutR >> ELSE cuts

(* VulkanUtility::cutRange, lines 648-679.                                  *)

\* layersWithin with the test dropped: every horizontal piece is cut again
layersWithin_Always(range, cutWithR) ==
    TRUE

\* the test that sends a horizontal piece to cutVertical (lines 663-664)
layersWithin(range, cutWithR) ==
    /\ range.baseArrayLayer >= cutWithR.baseArrayLayer
    /\ (range.baseArrayLayer + range.layerCount)
          <= (cutWithR.baseArrayLayer + cutWithR.layerCount)

RECURSIVE cutPieces(_, _, _)
\* the loop of lines 659-676 from index i on
cutPieces(horzCuts, cutWithR, i) ==
    IF i > Len(horzCuts) THEN << >>
    ELSE (IF layersWithin(horzCuts[i], cutWithR)
          THEN cutVertical(horzCuts[i], cutWithR)
          ELSE << horzCuts[i] >>) \o cutPieces(horzCuts, cutWithR, i + 1)

cutRange(toCutR, cutWithR) ==
    cutPieces(cutHorizontal(toCutR, cutWithR), cutWithR, 1)

(* VulkanUtility::rangeOverlaps, lines 681-694.                             *)

\* rangeOverlaps with a's right edge compared non-strictly
rangeOverlaps_TouchingRight(a, b) ==
    LET aRight == a.baseArrayLayer + a.layerCount
        bRight == b.baseArrayLayer + b.layerCount
        aBottom == a.baseMipLevel + a.levelCount
        bBottom == b.baseMipLevel + b.levelCount
    IN  /\ a.baseArrayLayer < bRight /\ aRight >= b.baseArrayLayer
        /\ a.baseMipLevel < bBottom /\ aBottom > b.baseMipLevel

\* rangeOverlaps without the comparison of the mip levels
rangeOverlaps_LayersOnly(a, b) ==
    LET aRight == a.baseArrayLayer + a.layerCount
        bRight == b.baseArrayLayer + b.layerCount
    IN  a.baseArrayLayer < bRight /\ aRight > b.baseArrayLayer

rangeOverlaps(a, b) ==
    LET aRight == a.baseArrayLayer + a.layerCount
        bRight == b.baseArrayLayer + b.layerCount
        aBottom == a.baseMipLevel + a.levelCount
        bBottom == b.baseMipLevel + b.levelCount
    IN  /\ a.baseArrayLayer < bRight /\ aRight > b.baseArrayLayer
        /\ a.baseMipLevel < bBottom /\ aBottom > b.baseMipLevel

-----------------------------------------------------------------------------
(* The range specification: a caller picks two ranges and calls cutRange.  *)

RangeInit ==
    /\ textureDescs = {} /\ bufferDescs = {}
    /\ poolAlive = TRUE /\ mTextures = << >> /\ mBuffers = << >>
    /\ heap = << >> /\ last = [kind |-> "none"]
    /\ toCut \in Ranges(MaxBase)
    /\ cutWith \in Ranges(MaxCutBase)
    /\ output = << >>
    /\ numAreas = 0
    /\ rpc = "call"
    /\ overlapCalls = {}
    /\ DeclUnused /\ FieldUnused

\* one call of cutRange on the chosen arguments
CallCutRange ==
    /\ rpc = "call"
    /\ output' = cutRange(toCut, cutWith)
    /\ numAreas' = Len(cutRange(toCut, cutWith))
    /\ rpc' = "done"
    /\ UNCHANGED <<toCut, cutWith, overlapCalls>>
    /\ UNCHANGED <<poolVars, declVars, fieldVars>>

\* one call of rangeOverlaps on the chosen ranges, in either order, by a
\* caller that tests the overlap instead of cutting
CallRangeOverlaps ==
    /\ rpc \in {"call", "overlaps"}
    /\ rpc' = "overlaps"
    /\ \E args \in {<<toCut, cutWith>>, <<cutWith, toCut>>} :
        /\ \A c \in overlapCalls : <<c.a, c.b>> # args
        /\ overlapCalls' = overlapCalls \cup
              { [a |-> args[1], b |-> args[2],
                 result |-> rangeOverlaps(args[1], args[2])] }
    /\ UNCHANGED <<toCut, cutWith, output, numAreas>>
    /\ UNCHANGED <<poolVars, declVars, fieldVars>>

RangeNext ==
    \/ CallCutRange
    \/ CallRangeOverlaps

SpecRange == RangeInit /\ [][RangeNext]_vars

-----------------------------------------------------------------------------
(* GpuResourcePool (lines 34-306 of BsScriptCodeImporter.h).               *)

(* Bounds of the pool model. *)
MaxWrappers == 2

\* the addresses at which a wrapper can live: a wrapper is identified by its
\* address, as in the keys of mTextures and mBuffers
WrapperIds == 1..MaxWrappers

\* TextureUsage bits that the pool reads
TU_RENDERTARGET == "TU_RENDERTARGET"
TU_DEPTHSTENCIL == "TU_DEPTHSTENCIL"

\* POOLED_RENDER_TEXTURE_DESC::create2D(PF_A, 256, 256, TU_RENDERTARGET, 1, false)
BaseTextureDesc ==
    [type |-> "TEX_TYPE_2D", format |-> "PF_A", width |-> 256, height |-> 256,
     depth |-> 1, flag |-> {TU_RENDERTARGET}, hwGamma |-> FALSE, numSamples |-> 1]

\* the POOLED_RENDER_TEXTURE_DESC values the callers of the model pass with
\* BaseTextureDesc: those that differ from it in at most one field
TextureDescs ==
    { [BaseTextureDesc EXCEPT !.type = t] :
        t \in {"TEX_TYPE_1D", "TEX_TYPE_2D", "TEX_TYPE_3D", "TEX_TYPE_CUBE_MAP"} }
    \cup { [BaseTextureDesc EXCEPT !.format = "PF_B"],
           [BaseTextureDesc EXCEPT !.width = 128],
           [BaseTextureDesc EXCEPT !.height = 128],
           [BaseTextureDesc EXCEPT !.depth = 2],
           [BaseTextureDesc EXCEPT !.hwGamma = TRUE],
           [BaseTextureDesc EXCEPT !.numSamples = 2] }
    \cup { [BaseTextureDesc EXCEPT !.flag = u] :
             u \in SUBSET {TU_RENDERTARGET, TU_DEPTHSTENCIL} }

\* POOLED_STORAGE_BUFFER_DESC::createStandard(BF_A, 16)
BaseStandardDesc ==
    [type |-> "GBT_STANDARD", format |-> "BF_A", numElements |-> 16, elementSize |-> 0]

\* POOLED_STORAGE_BUFFER_DESC::createStructured(4, 16)
BaseStructuredDesc ==
    [type |-> "GBT_STRUCTURED", format |-> "BF_UNKNOWN", numElements |-> 16, elementSize |-> 4]

\* the POOLED_STORAGE_BUFFER_DESC values the callers of the model pass: those
\* that differ from one of the two base descriptors in at most one field
BufferDescs ==
    { BaseStandardDesc,
      [BaseStandardDesc EXCEPT !.format = "BF_B"],
      [BaseStandardDesc EXCEPT !.numElements = 32],
      [BaseStandardDesc EXCEPT !.elementSize = 4],
      BaseStructuredDesc,
      [BaseStructuredDesc EXCEPT !.format = "BF_A"],
      [BaseStructuredDesc EXCEPT !.numElements = 32],
      [BaseStructuredDesc EXCEPT !.elementSize = 8] }

\* the descriptors of one run: two descriptors that differ in at most one
\* field, of the same kind or one of each kind
CallerDescs ==
    { << {BaseTextureDesc, d}, {} >> : d \in TextureDescs }
    \cup { << {[BaseTextureDesc EXCEPT !.type = "TEX_TYPE_3D"],
               [BaseTextureDesc EXCEPT !.type = "TEX_TYPE_3D", !.depth = 2]}, {} >>,
           << {[BaseTextureDesc EXCEPT !.type = "TEX_TYPE_3D"],
               [BaseTextureDesc EXCEPT !.type = "TEX_TYPE_3D", !.hwGamma = TRUE]}, {} >>,
           << {[BaseTextureDesc EXCEPT !.type = "TEX_TYPE_3D"],
               [BaseTextureDesc EXCEPT !.type = "TEX_TYPE_3D", !.numSamples = 2]}, {} >>,
           << {[BaseTextureDesc EXCEPT !.type = "TEX_TYPE_CUBE_MAP"],
               [BaseTextureDesc EXCEPT !.type = "TEX_TYPE_CUBE_MAP", !.hwGamma = TRUE]}, {} >>,
           << {BaseTextureDesc}, {BaseStandardDesc} >> }
    \cup { << {}, {BaseStandardDesc, d} >> : d \in BufferDescs }
    \cup { << {}, {BaseStructuredDesc, d} >> :
               d \in { b \in BufferDescs : b.type = "GBT_STRUCTURED" } }

\* a null SPtr<Texture> / SPtr<GpuBuffer> / SPtr<RenderTexture>
NullHandle == [null |-> TRUE]

\* no object was constructed at this address yet
NoObject == [kind |-> "none"]

\* the object at this address was destroyed; its memory can be used again
Destroyed == [kind |-> "destroyed"]

NoGet == [kind |-> "none"]

IsLive(w) == heap[w] # NoObject /\ heap[w] # Destroyed

\* the addresses bs_shared_ptr_new can return for a new wrapper
FreeAddresses == { w \in WrapperIds : ~IsLive(w) }

\* the Texture that TextureManager::createTexture builds from texDesc
\* (lines 95-105): its properties are the descriptor's fields
TextureOf(desc) ==
    [type |-> desc.type, width |-> desc.width, height |-> desc.height,
     depth |-> desc.depth, format |-> desc.format, usage |-> desc.flag,
     hwGamma |-> desc.hwGamma, numSamples |-> desc.numSamples]

\* the GpuBuffer that GpuBuffer::create builds from bufferDesc (lines 155-162)
BufferOf(desc) ==
    [type |-> desc.type, elementSize |-> desc.elementSize,
     elementCount |-> desc.numElements, format |-> desc.format,
     randomGpuWrite |-> TRUE]

\* usageCovers with the two sides of the test exchanged
usageCovers_Reversed(usage, flag) ==
    (usage \cap flag) = usage

\* usageCovers as an equality of the two flag sets
usageCovers_Exact(usage, flag) ==
    usage = flag

\* the usage test of matches (line 187): (usage & flag) == flag
usageCovers(usage, flag) ==
    (usage \cap flag) = flag

\* typeSpecificMatch with the gamma flag compared for a 3D request too
typeSpecificMatch_GammaFor3D(texProps, desc) ==
    \/ /\ desc.type = "TEX_TYPE_2D"
       /\ texProps.hwGamma = desc.hwGamma
       /\ texProps.numSamples = desc.numSamples
    \/ /\ desc.type = "TEX_TYPE_3D"
       /\ texProps.depth = desc.depth
       /\ texProps.hwGamma = desc.hwGamma
    \/ desc.type = "TEX_TYPE_CUBE_MAP"

\* the dimension-specific part of matches (lines 188-195)
typeSpecificMatch(texProps, desc) ==
    \/ /\ desc.type = "TEX_TYPE_2D"
       /\ texProps.hwGamma = desc.hwGamma
       /\ texProps.numSamples = desc.numSamples
    \/ /\ desc.type = "TEX_TYPE_3D"
       /\ texProps.depth = desc.depth
    \/ desc.type = "TEX_TYPE_CUBE_MAP"

\* shapeMatch without the comparison of the widths
shapeMatch_NoWidth(texProps, desc) ==
    /\ texProps.type = desc.type
    /\ texProps.format = desc.format
    /\ texProps.height = desc.height

\* the shape part of matches (lines 183-186)
shapeMatch(texProps, desc) ==
    /\ texProps.type = desc.type
    /\ texProps.format = desc.format
    /\ texProps.width = desc.width
    /\ texProps.height = desc.height

\* GpuResourcePool::matches(const SPtr<Texture>&, const POOLED_RENDER_TEXTURE_DESC&)
matchesTexture(texProps, desc) ==
    /\ shapeMatch(texProps, desc)
    /\ usageCovers(texProps.usage, desc.flag)
    /\ typeSpecificMatch(texProps, desc)

\* matchesBuffer with the format compared for both kinds of buffer
matchesBuffer_FormatAlways(props, desc) ==
    /\ props.type = desc.type /\ props.elementCount = desc.numElements
    /\ props.format = desc.format
    /\ desc.type # "GBT_STANDARD" => props.elementSize = desc.elementSize

\* GpuResourcePool::matches(const SPtr<GpuBuffer>&, const POOLED_STORAGE_BUFFER_DESC&)
matchesBuffer(props, desc) ==
    IF props.type = desc.type /\ props.elementCount = desc.numElements
    THEN IF desc.type = "GBT_STANDARD"
         THEN props.format = desc.format
         ELSE props.elementSize = desc.elementSize
    ELSE FALSE

\* scanConsiders without the skip of the wrappers in use
scanConsiders_IgnoresFree(wrapper) ==
    wrapper.resource # NullHandle

\* the two skips of the scan (lines 79-83 and 139-143): the wrapper is free
\* and its resource is not null
scanConsiders(wrapper) ==
    wrapper.mIsFree /\ wrapper.resource # NullHandle

\* TextureCandidates without the skip of a null texture (lines 82-83), a
\* null texture passing for a match
TextureCandidates_KeepsNull(desc) ==
    { i \in 1..Len(mTextures) :
        /\ heap[mTextures[i]].mIsFree
        /\ \/ heap[mTextures[i]].resource = NullHandle
           \/ matchesTexture(heap[mTextures[i]].resource, desc) }

\* the indices of the map entries a get() would return, in iteration order
TextureCandidates(desc) ==
    { i \in 1..Len(mTextures) :
        /\ scanConsiders(heap[mTextures[i]])
        /\ matchesTexture(heap[mTextures[i]].resource, desc) }

BufferCandidates(desc) ==
    { i \in 1..Len(mBuffers) :
        /\ scanConsiders(heap[mBuffers[i]])
        /\ matchesBuffer(heap[mBuffers[i]].resource, desc) }

\* the first index of a non-empty set of indices: where the loop returns
FirstOf(indices) == CHOOSE i \in indices : \A j \in indices : i <= j

\* std::map::insert of a new key: the maps are keyed by the wrapper's
\* address and iterate in the order of the keys
Insert(seq, w) ==
    SelectSeq(seq, LAMBDA x : x < w) \o << w >> \o SelectSeq(seq, LAMBDA x : x > w)

\* std::map::erase(key)
Erase(seq, w) == SelectSeq(seq, LAMBDA x : x # w)

\* wantsRenderTexture with the test of the flags dropped
wantsRenderTexture_Always(desc) ==
    TRUE

\* whether get() builds a render texture for the new wrapper (line 107)
wantsRenderTexture(desc) ==
    (desc.flag \cap {TU_RENDERTARGET, TU_DEPTHSTENCIL}) # {}

\* the RenderTexture that TextureManager::createRenderTexture builds from
\* rtDesc (lines 109-127): the surfaces bound to face 0, mip level 0
RenderTextureOf(desc) ==
    [color |-> TU_RENDERTARGET \in desc.flag,
     depthStencil |-> TU_DEPTHSTENCIL \in desc.flag,
     face |-> 0, numFaces |-> 1, mipLevel |-> 0]

\* the history record kept after a get(); prev is the get() before it when
\* the only operation between the two was the release of that get()'s result
GetRecord(kind, desc, ret, created, wasInUse) ==
    [kind |-> kind, desc |-> desc, ret |-> ret, created |-> created,
     wasInUse |-> wasInUse, released |-> FALSE,
     prev |-> IF last = NoGet \/ ~last.released THEN NoGet
              ELSE [kind |-> last.kind, desc |-> last.desc, ret |-> last.ret,
                    released |-> last.released]]

PoolInit ==
    /\ \E descs \in CallerDescs :
          textureDescs = descs[1] /\ bufferDescs = descs[2]
    /\ poolAlive = TRUE
    /\ mTextures = << >>
    /\ mBuffers = << >>
    /\ heap = [w \in WrapperIds |-> NoObject]
    /\ last = NoGet

\* GetTextureReuse that marks every candidate in use, not only the first
GetTextureReuse_MarksAll(desc) ==
    /\ poolAlive
    /\ TextureCandidates(desc) # {}
    /\ LET w == mTextures[FirstOf(TextureCandidates(desc))] IN
        /\ heap' = [v \in WrapperIds |->
                      IF v = w
                      THEN [heap[v] EXCEPT !.mIsFree = FALSE, !.lent = @ + 1]
                      ELSE IF \E i \in TextureCandidates(desc) : mTextures[i] = v
                           THEN [heap[v] EXCEPT !.mIsFree = FALSE]
                           ELSE heap[v]]
        /\ last' = GetRecord("texture", desc, w, FALSE, ~heap[w].mIsFree)
    /\ UNCHANGED <<textureDescs, bufferDescs, poolAlive, mTextures, mBuffers>>
    /\ UNCHANGED <<rangeVars, declVars, fieldVars>>

\* get(const POOLED_RENDER_TEXTURE_DESC&) returning a pooled wrapper (lines 75-90)
GetTextureReuse(desc) ==
    /\ poolAlive
    /\ TextureCandidates(desc) # {}
    /\ LET w == mTextures[FirstOf(TextureCandidates(desc))] IN
        /\ heap' = [heap EXCEPT ![w].mIsFree = FALSE,
                                ![w].lent = @ + 1]
        /\ last' = GetRecord("texture", desc, w, FALSE, ~heap[w].mIsFree)
    /\ UNCHANGED <<textureDescs, bufferDescs, poolAlive, mTextures, mBuffers>>
    /\ UNCHANGED <<rangeVars, declVars, fieldVars>>

\* get(const POOLED_RENDER_TEXTURE_DESC&) building a new wrapper (lines 92-130)
GetTextureCreate(desc) ==
    /\ poolAlive
    /\ TextureCandidates(desc) = {}
    /\ \E texture \in {TextureOf(desc), NullHandle} :
       \E renderTexture \in {RenderTextureOf(desc), NullHandle} :
       \E new \in FreeAddresses :
        /\ wantsRenderTexture(desc) \/ renderTexture = NullHandle
        /\ heap' = [heap EXCEPT ![new] =
                        [kind |-> "texture", mPool |-> TRUE, mIsFree |-> FALSE,
                         resource |-> texture, renderTexture |-> renderTexture,
                         lent |-> 1]]
        /\ mTextures' = Insert(mTextures, new)
        /\ last' = GetRecord("texture", desc, new, TRUE, FALSE)
    /\ UNCHANGED <<textureDescs, bufferDescs, poolAlive, mBuffers>>
    /\ UNCHANGED <<rangeVars, declVars, fieldVars>>

\* get(const POOLED_STORAGE_BUFFER_DESC&) returning a pooled wrapper (lines 135-150)
GetBufferReuse(desc) ==
    /\ poolAlive
    /\ BufferCandidates(desc) # {}
    /\ LET w == mBuffers[FirstOf(BufferCandidates(desc))] IN
        /\ heap' = [heap EXCEPT ![w].mIsFree = FALSE,
                                ![w].lent = @ + 1]
        /\ last' = GetRecord("buffer", desc, w, FALSE, ~heap[w].mIsFree)
    /\ UNCHANGED <<textureDescs, bufferDescs, poolAlive, mTextures, mBuffers>>
    /\ UNCHANGED <<rangeVars, declVars, fieldVars>>

\* get(const POOLED_STORAGE_BUFFER_DESC&) building a new wrapper (lines 152-164)
GetBufferCreate(desc) ==
    /\ poolAlive
    /\ BufferCandidates(desc) = {}
    /\ \E buffer \in {BufferOf(desc), NullHandle} :
       \E new \in FreeAddresses :
        /\ heap' = [heap EXCEPT ![new] =
                        [kind |-> "buffer", mPool |-> TRUE, mIsFree |-> FALSE,
                         resource |-> buffer, renderTexture |-> NullHandle,
                         lent |-> 1]]
        /\ mBuffers' = Insert(mBuffers, new)
        /\ last' = GetRecord("buffer", desc, new, TRUE, FALSE)
    /\ UNCHANGED <<textureDescs, bufferDescs, poolAlive, mTextures>>
    /\ UNCHANGED <<rangeVars, declVars, fieldVars>>

\* Release that finds the wrapper and leaves mIsFree as it is
Release_KeepsInUse(w) ==
    /\ poolAlive
    /\ IsLive(w)
    /\ last' = IF last # NoGet /\ last.ret = w /\ ~last.released
               THEN [last EXCEPT !.released = TRUE, !.created = FALSE,
                                 !.wasInUse = FALSE, !.prev = NoGet]
               ELSE NoGet
    /\ UNCHANGED <<textureDescs, bufferDescs, poolAlive, mTextures, mBuffers, heap>>
    /\ UNCHANGED <<rangeVars, declVars, fieldVars>>

\* Release that marks every live wrapper free, not only w
Release_FreesAll(w) ==
    /\ poolAlive
    /\ IsLive(w)
    /\ \/ heap[w].kind = "texture" /\ \E i \in 1..Len(mTextures) : mTextures[i] = w
       \/ heap[w].kind = "buffer" /\ \E i \in 1..Len(mBuffers) : mBuffers[i] = w
    /\ heap' = [v \in WrapperIds |->
                  IF IsLive(v) THEN [heap[v] EXCEPT !.mIsFree = TRUE, !.lent = 0]
                  ELSE heap[v]]
    /\ last' = IF last # NoGet /\ last.ret = w /\ ~last.released
               THEN [last EXCEPT !.released = TRUE, !.created = FALSE,
                                 !.wasInUse = FALSE, !.prev = NoGet]
               ELSE NoGet
    /\ UNCHANGED <<textureDescs, bufferDescs, poolAlive, mTextures, mBuffers>>
    /\ UNCHANGED <<rangeVars, declVars, fieldVars>>

\* release(const SPtr<PooledRenderTexture>&) and release(const
\* SPtr<PooledStorageBuffer>&) (lines 167-177), called by a holder of w
Release(w) ==
    /\ poolAlive
    /\ IsLive(w)
    /\ \/ heap[w].kind = "texture" /\ \E i \in 1..Len(mTextures) : mTextures[i] = w
       \/ heap[w].kind = "buffer" /\ \E i \in 1..Len(mBuffers) : mBuffers[i] = w
    /\ heap' = [heap EXCEPT ![w].mIsFree = TRUE, ![w].lent = 0]
    /\ last' = IF last # NoGet /\ last.ret = w /\ ~last.released
               THEN [last EXCEPT !.released = TRUE, !.created = FALSE,
                                 !.wasInUse = FALSE, !.prev = NoGet]
               ELSE NoGet
    /\ UNCHANGED <<textureDescs, bufferDescs, poolAlive, mTextures, mBuffers>>
    /\ UNCHANGED <<rangeVars, declVars, fieldVars>>

\* DropLastReference with a destructor that does not unregister
DropLastReference_NoUnregister(w) ==
    /\ IsLive(w)
    /\ heap' = [heap EXCEPT ![w] = Destroyed]
    /\ last' = NoGet
    /\ UNCHANGED <<textureDescs, bufferDescs, poolAlive, mTextures, mBuffers>>
    /\ UNCHANGED <<rangeVars, declVars, fieldVars>>

\* the last holder of w lets go of its SPtr: ~PooledRenderTexture or
\* ~PooledStorageBuffer runs (lines 48-62) and, when mPool is set, unregisters
\* w (lines 222-235). Holders may copy their SPtr freely and no code reads the
\* count, so only the last drop changes the state.
DropLastReference(w) ==
    /\ IsLive(w)
    /\ heap' = [heap EXCEPT ![w] = Destroyed]
    /\ mTextures' = IF heap[w].mPool /\ heap[w].kind = "texture"
                    THEN Erase(mTextures, w) ELSE mTextures
    /\ mBuffers' = IF heap[w].mPool /\ heap[w].kind = "buffer"
                   THEN Erase(mBuffers, w) ELSE mBuffers
    /\ last' = NoGet
    /\ UNCHANGED <<textureDescs, bufferDescs, poolAlive>>
    /\ UNCHANGED <<rangeVars, declVars, fieldVars>>

\* Teardown of a pool that owns its wrappers and destroys them with itself
Teardown_DestroysWrappers ==
    /\ poolAlive
    /\ poolAlive' = FALSE
    /\ heap' = [w \in WrapperIds |->
                  IF \/ \E i \in 1..Len(mTextures) : mTextures[i] = w
                     \/ \E i \in 1..Len(mBuffers) : mBuffers[i] = w
                  THEN Destroyed
                  ELSE heap[w]]
    /\ mTextures' = << >>
    /\ mBuffers' = << >>
    /\ last' = NoGet
    /\ UNCHANGED <<textureDescs, bufferDescs>>
    /\ UNCHANGED <<rangeVars, declVars, fieldVars>>

\* Teardown without the loop over mBuffers
Teardown_TexturesOnly ==
    /\ poolAlive
    /\ poolAlive' = FALSE
    /\ heap' = [w \in WrapperIds |->
                  IF \E i \in 1..Len(mTextures) : mTextures[i] = w
                  THEN [heap[w] EXCEPT !.mPool = FALSE]
                  ELSE heap[w]]
    /\ mTextures' = << >>
    /\ mBuffers' = << >>
    /\ last' = NoGet
    /\ UNCHANGED <<textureDescs, bufferDescs>>
    /\ UNCHANGED <<rangeVars, declVars, fieldVars>>

\* ~GpuResourcePool (lines 64-71); the maps are destroyed with the pool
Teardown ==
    /\ poolAlive
    /\ poolAlive' = FALSE
    /\ heap' = [w \in WrapperIds |->
                  IF \/ \E i \in 1..Len(mTextures) : mTextures[i] = w
                     \/ \E i \in 1..Len(mBuffers) : mBuffers[i] = w
                  THEN [heap[w] EXCEPT !.mPool = FALSE]
                  ELSE heap[w]]
    /\ mTextures' = << >>
    /\ mBuffers' = << >>
    /\ last' = NoGet
    /\ UNCHANGED <<textureDescs, bufferDescs>>
    /\ UNCHANGED <<rangeVars, declVars, fieldVars>>

Init ==
    /\ PoolInit
    /\ toCut = NoRange /\ cutWith = NoRange /\ output = << >>
    /\ numAreas = 0 /\ rpc = "idle" /\ overlapCalls = {}
    /\ DeclUnused /\ FieldUnused

Next ==
    \/ \E desc \in textureDescs : GetTextureReuse(desc)
    \/ \E desc \in textureDescs : GetTextureCreate(desc)
    \/ \E desc \in bufferDescs : GetBufferReuse(desc)
    \/ \E desc \in bufferDescs : GetBufferCreate(desc)
    \/ \E w \in WrapperIds : Release(w)
    \/ \E w \in WrapperIds : DropLastReference(w)
    \/ Teardown

Spec == Init /\ [][Next]_vars

-----------------------------------------------------------------------------
(* Claims about GpuResourcePool, checked under Spec.                       *)

\* the state right after a get()
PostGet == last # NoGet /\ ~last.released

\* the state right after a get() that followed a get() (prev) and the
\* release of its result
HasPrev == PostGet /\ last.prev # NoGet

AfterRelease == HasPrev /\ last.prev.released

\* the place of w in the iteration order of a map
IndexOf(seq, w) == CHOOSE i \in 1..Len(seq) : seq[i] = w

C2_ExclusiveUse ==
    /\ PostGet => ~last.wasInUse
    /\ \A w \in WrapperIds : IsLive(w) => heap[w].lent <= 1

C2_Witness ==
    /\ AfterRelease /\ ~last.created /\ last.ret = last.prev.ret
    /\ \E w \in WrapperIds : w # last.ret /\ IsLive(w) /\ ~heap[w].mIsFree

\* C3: two texture descriptors that differ in type, format, width or height
\* never get the same wrapper: a get() returns no wrapper that is in use (the
\* result of an earlier get() that was not released) or whose texture was
\* made for another type, format, width or height, and after get(D1), the
\* release of its result and get(D2) the two results differ.
C3_IncompatibleDistinct ==
    /\ (PostGet /\ last.kind = "texture") =>
          /\ ~last.wasInUse
          /\ heap[last.ret].resource # NullHandle =>
                /\ heap[last.ret].resource.type = last.desc.type
                /\ heap[last.ret].resource.format = last.desc.format
                /\ heap[last.ret].resource.width = last.desc.width
                /\ heap[last.ret].resource.height = last.desc.height
    /\ (/\ HasPrev /\ last.kind = "texture" /\ last.prev.kind = "texture"
        /\ \/ last.prev.desc.type # last.desc.type
           \/ last.prev.desc.format # last.desc.format
           \/ last.prev.desc.width # last.desc.width
           \/ last.prev.desc.height # last.desc.height)
          => last.ret # last.prev.ret

C3_Witness ==
    /\ AfterRelease /\ last.kind = "texture" /\ last.prev.kind = "texture"
    /\ last.prev.desc.width # last.desc.width
    /\ heap[last.prev.ret].mIsFree /\ heap[last.prev.ret].resource # NullHandle
    /\ last.ret # last.prev.ret /\ last.created

\* C4: a texture get() reuses a wrapper only if the wrapper's usage holds
\* every requested flag, and extra flags of a free wrapper do not stop the
\* reuse: no wrapper is constructed while a free one with a non-null texture
\* equals the request in every other field and has a superset of its flags.
C4_UsageSuperset ==
    (PostGet /\ last.kind = "texture")
        => /\ ~last.created => last.desc.flag \subseteq heap[last.ret].resource.usage
           /\ (last.created /\ last.desc.type
                    \in {"TEX_TYPE_2D", "TEX_TYPE_3D", "TEX_TYPE_CUBE_MAP"})
                => ~ \E i \in 1..Len(mTextures) :
                       LET w == mTextures[i] IN
                         /\ w # last.ret
                         /\ heap[w].mIsFree
                         /\ heap[w].resource # NullHandle
                         /\ last.desc.flag \subseteq heap[w].resource.usage
                         /\ heap[w].resource
                              = TextureOf([last.desc EXCEPT !.flag = heap[w].resource.usage])

C4_Witness ==
    /\ PostGet /\ last.kind = "texture" /\ ~last.created
    /\ TU_RENDERTARGET \in last.desc.flag
    /\ last.desc.flag # heap[last.ret].resource.usage
    /\ last.desc.flag \subseteq heap[last.ret].resource.usage

\* the scenario of C5: get of a 2D render-target descriptor (1 sample, no
\* gamma), release of its result, get of the descriptor without
\* TU_RENDERTARGET and otherwise identical
RenderTargetDropped ==
    /\ AfterRelease /\ last.kind = "texture" /\ last.prev.kind = "texture"
    /\ last.prev.desc.type = "TEX_TYPE_2D"
    /\ TU_RENDERTARGET \in last.prev.desc.flag
    /\ last.prev.desc.numSamples = 1 /\ ~last.prev.desc.hwGamma
    /\ last.desc = [last.prev.desc EXCEPT !.flag = @ \ {TU_RENDERTARGET}]

\* C5 (as claimed): in that scenario the second get does not return the
\* released wrapper and constructs a new one.
C5_NoRenderTargetNoReuse ==
    RenderTargetDropped => (last.ret # last.prev.ret /\ last.created)

\* C5 (amended): in that scenario, when the released wrapper's texture is not
\* null, the second get constructs no wrapper: it returns the released
\* wrapper, or a free matching one that precedes it in the scan.
C5_NoRenderTargetReuses ==
    (RenderTargetDropped /\ heap[last.prev.ret].resource # NullHandle)
        => /\ ~last.created
           /\ \/ last.ret = last.prev.ret
              \/ IndexOf(mTextures, last.ret) < IndexOf(mTextures, last.prev.ret)

C5_Witness ==
    /\ RenderTargetDropped /\ heap[last.prev.ret].resource # NullHandle
    /\ last.ret = last.prev.ret /\ ~last.created
    /\ heap[last.ret].renderTexture # NullHandle

\* w is a key of the map of its kind
IsRegistered(w) ==
    \/ \E i \in 1..Len(mTextures) : mTextures[i] = w
    \/ \E i \in 1..Len(mBuffers) : mBuffers[i] = w

\* C13: the step that destroys the pool sets mPool to null on every
\* registered wrapper, texture or buffer, and changes nothing else on any
\* wrapper (none is destroyed, mIsFree and the handles stay); in every state
\* after it no live wrapper points to the pool, so a wrapper destroyed then
\* takes the mPool == nullptr branch of its destructor: no unregister call,
\* no access to the dead pool's maps.
C13_TeardownClearsBackReference ==
    /\ [][ (poolAlive /\ ~poolAlive') =>
              \A w \in WrapperIds :
                 heap'[w] = IF IsLive(w) /\ IsRegistered(w)
                            THEN [heap[w] EXCEPT !.mPool = FALSE]
                            ELSE heap[w] ]_vars
    /\ [][ ~poolAlive =>
              \A w \in WrapperIds :
                 (IsLive(w) /\ heap'[w] = Destroyed)
                    => (~heap[w].mPool /\ UNCHANGED <<mTextures, mBuffers, poolAlive>>) ]_vars
    /\ [](~poolAlive => \A w \in WrapperIds : IsLive(w) => ~heap[w].mPool)

\* after the teardown: a texture wrapper and a buffer wrapper both outlive
\* the pool, one free and one in use, neither pointing to the pool
C13_Witness ==
    /\ ~poolAlive
    /\ \E t, b \in WrapperIds :
         /\ IsLive(t) /\ heap[t].kind = "texture" /\ ~heap[t].mPool
         /\ IsLive(b) /\ heap[b].kind = "buffer" /\ ~heap[b].mPool
         /\ heap[t].mIsFree /\ ~heap[b].mIsFree
         /\ heap[t].resource # NullHandle

\* the keys of a map, as a set
KeysOf(seq) == { seq[i] : i \in 1..Len(seq) }

\* C14: while the pool is alive, the keys of mTextures are exactly the live
\* texture wrappers and the keys of mBuffers exactly the live buffer
\* wrappers (every wrapper is constructed by get() of this pool), each key
\* once: no entry refers to a destroyed wrapper, so the weak_ptr locked by a
\* scan or by the teardown is never expired.
C14_MapsHoldLiveWrappers ==
    poolAlive =>
        /\ KeysOf(mTextures) = { w \in WrapperIds : IsLive(w) /\ heap[w].kind = "texture" }
        /\ KeysOf(mBuffers) = { w \in WrapperIds : IsLive(w) /\ heap[w].kind = "buffer" }
        /\ Cardinality(KeysOf(mTextures)) = Len(mTextures)
        /\ Cardinality(KeysOf(mBuffers)) = Len(mBuffers)
        /\ \A w \in WrapperIds : IsLive(w) => heap[w].mPool

\* a wrapper was destroyed while the pool is alive and another one is
\* registered
C14_Witness ==
    /\ poolAlive
    /\ \E w, v \in WrapperIds :
         /\ heap[w] = Destroyed /\ IsLive(v)
         /\ v \in KeysOf(mTextures) \cup KeysOf(mBuffers)
         /\ w \notin KeysOf(mTextures) \cup KeysOf(mBuffers)

\* C15: a get() whose factory call returns null still registers the new
\* wrapper and returns it in use, its resource null (get() has no error
\* path); and no get() ever returns a pooled wrapper whose resource is null,
\* released or not.
C15_NullHandleNeverReturned ==
    PostGet =>
        /\ last.created =>
              /\ IsRegistered(last.ret)
              /\ ~heap[last.ret].mIsFree
              /\ \/ heap[last.ret].resource = NullHandle
                 \/ last.kind = "texture" /\ heap[last.ret].resource = TextureOf(last.desc)
                 \/ last.kind = "buffer" /\ heap[last.ret].resource = BufferOf(last.desc)
        /\ ~last.created => heap[last.ret].resource # NullHandle

\* get(D) came back with a null resource, the wrapper was released, and
\* get(D) again constructed a second wrapper while the first one sits free
\* in the map
C15_Witness ==
    /\ AfterRelease /\ last.prev.kind = last.kind /\ last.prev.desc = last.desc
    /\ IsLive(last.prev.ret) /\ IsRegistered(last.prev.ret)
    /\ heap[last.prev.ret].resource = NullHandle
    /\ heap[last.prev.ret].mIsFree
    /\ last.created /\ last.ret # last.prev.ret

\* C16: a release(w) step leaves w free and registered with the texture or
\* buffer and the render texture it had, leaves both maps (so the number of
\* registered wrappers) and every other wrapper as they were, and changes no
\* wrapper at all when w was free already.
C16_ReleaseFrame ==
    [][ \A w \in WrapperIds : Release(w) =>
          /\ heap'[w] # NoObject /\ heap'[w] # Destroyed
          /\ heap'[w].mIsFree
          /\ heap'[w].kind = heap[w].kind
          /\ heap'[w].mPool = heap[w].mPool
          /\ heap'[w].resource = heap[w].resource
          /\ heap'[w].renderTexture = heap[w].renderTexture
          /\ mTextures' = mTextures /\ mBuffers' = mBuffers
          /\ poolAlive' = poolAlive
          /\ \A v \in WrapperIds \ {w} : heap'[v] = heap[v]
          /\ heap[w].mIsFree => heap' = heap ]_vars

\* the result of the latest get() has been released and is free, while
\* another registered wrapper is still in use
C16_Witness ==
    /\ last # NoGet /\ last.released
    /\ IsLive(last.ret) /\ IsRegistered(last.ret) /\ heap[last.ret].mIsFree
    /\ \E v \in WrapperIds \ {last.ret} :
          IsLive(v) /\ IsRegistered(v) /\ ~heap[v].mIsFree

\* C17 (as claimed): while the pool is alive no wrapper is destroyed: no
\* address holds a destroyed wrapper.
C17_NeverDestroyedWhilePoolAlive ==
    poolAlive => \A w \in WrapperIds : heap[w] # Destroyed

\* C17 (amended): get(), release() and the teardown never destroy a wrapper:
\* a wrapper is destroyed only by its last holder letting go of it, with the
\* pool alive or gone; a wrapper destroyed while the pool is alive is no
\* longer registered and no later get() returns it.
C17_DestroyedByLastHolderOnly ==
    /\ [][ \A w \in WrapperIds :
              (IsLive(w) /\ heap'[w] = Destroyed) => DropLastReference(w) ]_vars
    /\ [](\A w \in WrapperIds :
              heap[w] = Destroyed
                 => /\ ~IsRegistered(w)
                    /\ PostGet => last.ret # w)

\* in a run whose callers pass a single descriptor: a wrapper was destroyed
\* while the pool is alive, no other wrapper is left, and a get() of that
\* descriptor constructed a new one
C17_Witness ==
    /\ poolAlive
    /\ Cardinality(textureDescs \cup bufferDescs) = 1
    /\ \E w \in WrapperIds : heap[w] = Destroyed
    /\ PostGet /\ last.created
    /\ heap[last.ret].resource # NullHandle
    /\ \A v \in WrapperIds \ {last.ret} : ~IsLive(v)

\* the image matching rule as C18 states it
ImageMatchAsStated(texProps, desc) ==
    /\ texProps.type = desc.type /\ texProps.format = desc.format
    /\ texProps.width = desc.width /\ texProps.height = desc.height
    /\ desc.flag \subseteq texProps.usage
    /\ CASE desc.type = "TEX_TYPE_2D" ->
               texProps.hwGamma = desc.hwGamma /\ texProps.numSamples = desc.numSamples
         [] desc.type = "TEX_TYPE_3D" -> texProps.depth = desc.depth
         [] desc.type = "TEX_TYPE_CUBE_MAP" -> TRUE
         [] OTHER -> FALSE

\* C18: a texture get() returns a pooled wrapper only if the wrapper's
\* texture matches the descriptor by the stated rule (type, format, width,
\* height equal, usage a superset, and gamma and samples for 2D, depth for
\* 3D, nothing more for a cube map), constructs a wrapper only if no free
\* wrapper with a non-null texture matches by that rule, and always
\* constructs one for a descriptor of any other type.
C18_ImageMatchExact ==
    (PostGet /\ last.kind = "texture") =>
        /\ ~last.created => ImageMatchAsStated(heap[last.ret].resource, last.desc)
        /\ last.created =>
              \A i \in 1..Len(mTextures) :
                 LET w == mTextures[i] IN
                   (w # last.ret /\ heap[w].mIsFree /\ heap[w].resource # NullHandle)
                      => ~ImageMatchAsStated(heap[w].resource, last.desc)
        /\ last.desc.type \notin {"TEX_TYPE_2D", "TEX_TYPE_3D", "TEX_TYPE_CUBE_MAP"}
              => last.created

\* a 3D texture made for one gamma setting is returned for a 3D descriptor
\* with the other gamma setting
C18_Witness ==
    /\ AfterRelease /\ last.kind = "texture" /\ last.prev.kind = "texture"
    /\ last.desc.type = "TEX_TYPE_3D"
    /\ last.prev.desc.hwGamma # last.desc.hwGamma
    /\ ~last.created /\ last.ret = last.prev.ret
    /\ heap[last.ret].resource.hwGamma # last.desc.hwGamma

\* the buffer matching rule as C19 states it
BufferMatchAsStated(props, desc) ==
    /\ props.type = desc.type
    /\ props.elementCount = desc.numElements
    /\ \/ desc.type = "GBT_STANDARD" /\ props.format = desc.format
       \/ desc.type = "GBT_STRUCTURED" /\ props.elementSize = desc.elementSize

\* C19: a buffer get() returns a pooled wrapper only if its buffer matches
\* the descriptor by the stated rule (kind and element count equal, and the
\* format for a standard buffer, the element size for a structured one), and
\* constructs a wrapper only if no free wrapper with a non-null buffer
\* matches by that rule.
C19_BufferMatchExact ==
    (PostGet /\ last.kind = "buffer") =>
        /\ ~last.created =>
              /\ heap[last.ret].resource # NullHandle
              /\ BufferMatchAsStated(heap[last.ret].resource, last.desc)
        /\ last.created =>
              \A i \in 1..Len(mBuffers) :
                 LET w == mBuffers[i] IN
                   (w # last.ret /\ heap[w].mIsFree /\ heap[w].resource # NullHandle)
                      => ~BufferMatchAsStated(heap[w].resource, last.desc)

\* a structured buffer made for one format is returned for a structured
\* descriptor of the same element size and count and another format
C19_Witness ==
    /\ AfterRelease /\ last.kind = "buffer" /\ last.prev.kind = "buffer"
    /\ last.desc.type = "GBT_STRUCTURED"
    /\ last.prev.desc.format # last.desc.format
    /\ ~last.created /\ last.ret = last.prev.ret
    /\ heap[last.ret].resource.format # last.desc.format

\* a step of get(): the history holds a new record of a get() with the
\* descriptor passed (last'.desc) and the wrapper returned (last'.ret)
GetStep == last' # last /\ last' # NoGet /\ ~last'.released

\* the wrappers that go from free to in use in a step
TakenInStep == { w \in WrapperIds : IsLive(w) /\ heap[w].mIsFree /\ ~heap'[w].mIsFree }

\* the effect C20 states for a get() step on the map of its kind, where
\* avail are the registered wrappers that are free, hold a non-null resource
\* and match the descriptor before the step
AcquireEffect(mapBefore, mapAfter, avail) ==
    LET ret == last'.ret IN
    /\ (Len(mapAfter) # Len(mapBefore)) <=> (avail = {})
    /\ avail = {} =>
          /\ Len(mapAfter) = Len(mapBefore) + 1
          /\ ret \notin KeysOf(mapBefore)
          /\ KeysOf(mapAfter) = KeysOf(mapBefore) \cup {ret}
          /\ TakenInStep = {}
    /\ avail # {} =>
          /\ mapAfter = mapBefore
          /\ TakenInStep = {ret}
          /\ ret \in avail
    /\ ret \in KeysOf(mapAfter)
    /\ heap'[ret] # NoObject /\ heap'[ret] # Destroyed /\ ~heap'[ret].mIsFree
    /\ \A v \in WrapperIds \ {ret} : heap'[v] = heap[v]

\* C20: a get() step registers a wrapper exactly when no registered wrapper
\* of the descriptor's kind is free, holds a non-null resource and matches;
\* the map then grows by one entry, the new wrapper. Otherwise both maps
\* stay as they are and exactly one wrapper, a free matching one, goes from
\* free to in use. Either way the returned wrapper is registered and in use
\* and no other wrapper changes.
C20_AcquireRegistersIffNoMatch ==
    /\ [][ (GetStep /\ last'.kind = "texture") =>
              /\ AcquireEffect(mTextures, mTextures',
                     { w \in KeysOf(mTextures) :
                         /\ heap[w].mIsFree /\ heap[w].resource # NullHandle
                         /\ matchesTexture(heap[w].resource, last'.desc) })
              /\ mBuffers' = mBuffers ]_vars
    /\ [][ (GetStep /\ last'.kind = "buffer") =>
              /\ AcquireEffect(mBuffers, mBuffers',
                     { w \in KeysOf(mBuffers) :
                         /\ heap[w].mIsFree /\ heap[w].resource # NullHandle
                         /\ matchesBuffer(heap[w].resource, last'.desc) })
              /\ mTextures' = mTextures ]_vars

\* a get() took one of two free matching wrappers: the other one is still
\* free
C20_Witness ==
    /\ PostGet /\ ~last.created
    /\ ~heap[last.ret].mIsFree /\ IsRegistered(last.ret)
    /\ \E v \in WrapperIds \ {last.ret} :
         /\ IsLive(v) /\ IsRegistered(v) /\ heap[v].kind = heap[last.ret].kind
         /\ heap[v].mIsFree /\ heap[v].resource # NullHandle
         /\ heap[v].resource = heap[last.ret].resource

\* C21 (as claimed): the wrapper returned by a texture get(D), constructed
\* or reused, holds a render texture exactly when D has TU_RENDERTARGET or
\* TU_DEPTHSTENCIL set.
C21_ViewIffRequested ==
    (PostGet /\ last.kind = "texture")
        => ((heap[last.ret].renderTexture # NullHandle)
               <=> wantsRenderTexture(last.desc))

\* the flags of the descriptor the wrapper returned by the latest get() was
\* constructed for: the descriptor of that get(), or the usage of the
\* texture of a wrapper that was reused
MadeForFlags ==
    IF last.created THEN last.desc.flag ELSE heap[last.ret].resource.usage

\* C21 (amended): the wrapper returned by a texture get(D) was constructed
\* for a descriptor whose flags contain those of D, and holds a render
\* texture only if that descriptor had TU_RENDERTARGET or TU_DEPTHSTENCIL
\* set; the render texture is then the one built for those flags (colour
\* surface for TU_RENDERTARGET, depth-stencil surface for TU_DEPTHSTENCIL,
\* face 0, mip level 0), or null when createRenderTexture returned null.
C21_ViewOnlyIfMadeForIt ==
    (PostGet /\ last.kind = "texture")
        => /\ last.desc.flag \subseteq MadeForFlags
           /\ (MadeForFlags \cap {TU_RENDERTARGET, TU_DEPTHSTENCIL}) = {}
                 => heap[last.ret].renderTexture = NullHandle
           /\ heap[last.ret].renderTexture # NullHandle
                 => heap[last.ret].renderTexture
                      = [color |-> TU_RENDERTARGET \in MadeForFlags,
                         depthStencil |-> TU_DEPTHSTENCIL \in MadeForFlags,
                         face |-> 0, numFaces |-> 1, mipLevel |-> 0]

\* a get() of a descriptor without TU_RENDERTARGET and TU_DEPTHSTENCIL reused
\* a wrapper that holds a render texture, while a wrapper constructed for
\* such a descriptor, holding none, is in use
C21_Witness ==
    /\ PostGet /\ last.kind = "texture" /\ ~last.created
    /\ last.desc.flag = {}
    /\ heap[last.ret].renderTexture # NullHandle
    /\ \E v \in WrapperIds \ {last.ret} :
          /\ IsLive(v) /\ heap[v].kind = "texture" /\ ~heap[v].mIsFree
          /\ heap[v].resource # NullHandle /\ heap[v].resource.usage = {}
          /\ heap[v].renderTexture = NullHandle

-----------------------------------------------------------------------------
(* Cells of the (layer, mip) index space, used to state the claims.        *)

Cells(r) ==
    (r.baseArrayLayer .. (r.baseArrayLayer + r.layerCount - 1))
        \X (r.baseMipLevel .. (r.baseMipLevel + r.levelCount - 1))

Covered(out) == UNION { Cells(out[i]) : i \in 1..Len(out) }

Positive(r) == r.layerCount > 0 /\ r.levelCount > 0

PairwiseDisjoint(out) ==
    \A i, j \in 1..Len(out) : i < j => Cells(out[i]) \cap Cells(out[j]) = {}

\* cutWithR lies strictly inside toCutR on both axes
StrictlyInterior(toCutR, cutWithR) ==
    /\ Positive(cutWithR)
    /\ toCutR.baseArrayLayer < cutWithR.baseArrayLayer
    /\ cutWithR.baseArrayLayer + cutWithR.layerCount < toCutR.baseArrayLayer + toCutR.layerCount
    /\ toCutR.baseMipLevel < cutWithR.baseMipLevel
    /\ cutWithR.baseMipLevel + cutWithR.levelCount < toCutR.baseMipLevel + toCutR.levelCount

-----------------------------------------------------------------------------
(* Claims about the range partitioner, checked under SpecRange.            *)

\* C6 (as claimed, both halves): for overlapping ranges with positive counts, the cells
\* covered by the output of cutRange are exactly the cells of toCut that
\* are not cells of cutWith.
C6_ExactDifference ==
    (rpc = "done" /\ Positive(toCut) /\ Positive(cutWith) /\ rangeOverlaps(toCut, cutWith))
        => Covered(output) = Cells(toCut) \ Cells(cutWith)

\* C6 (as claimed, its second half): for overlapping ranges with positive
\* counts, no cell of toCut outside cutWith is missing from the output.
C6_NoCellMissing ==
    (rpc = "done" /\ Positive(toCut) /\ Positive(cutWith) /\ rangeOverlaps(toCut, cutWith))
        => (Cells(toCut) \ Cells(cutWith)) \subseteq Covered(output)

\* C7 (as claimed): cutRange(R, R) yields no range at all.
C7_SelfCutEmpty ==
    (rpc = "done" /\ toCut = cutWith) => numAreas = 0

\* C7 (amended): cutRange(R, R) yields exactly one range, R itself.
C7_SelfCutYieldsRange ==
    (rpc = "done" /\ toCut = cutWith) => (numAreas = 1 /\ output = << toCut >>)

C7_Witness ==
    /\ rpc = "done" /\ toCut = cutWith /\ Positive(toCut)
    /\ toCut.baseArrayLayer > 0 /\ toCut.baseMipLevel > 0
    /\ output = << toCut >>

\* C8 (as claimed, already for ranges with positive counts): when the two
\* ranges do not intersect, cutRange yields exactly one range and it is toCut.
C8_DisjointUnchanged ==
    (rpc = "done" /\ Positive(toCut) /\ Positive(cutWith) /\ ~rangeOverlaps(toCut, cutWith))
        => (numAreas = 1 /\ output = << toCut >>)

\* C9 (as claimed): for cutWith strictly interior to toCut the output ranges
\* are pairwise disjoint, none of them meets cutWith, and together with
\* cutWith they cover exactly toCut.
C9_InteriorRingExcludesCut ==
    (rpc = "done" /\ StrictlyInterior(toCut, cutWith))
        => /\ PairwiseDisjoint(output)
           /\ \A i \in 1..Len(output) : ~rangeOverlaps(output[i], cutWith)
           /\ Covered(output) \cup Cells(cutWith) = Cells(toCut)

\* C9 (amended): for cutWith strictly interior to toCut the output ranges
\* are pairwise disjoint, they cover exactly toCut, exactly one of them is
\* cutWith itself and no other one meets cutWith.
C9_InteriorPartition ==
    (rpc = "done" /\ StrictlyInterior(toCut, cutWith))
        => /\ PairwiseDisjoint(output)
           /\ Covered(output) = Cells(toCut)
           /\ \A i \in 1..Len(output) : Positive(output[i])
           /\ Cardinality({ i \in 1..Len(output) : output[i] = cutWith }) = 1
           /\ \A i \in 1..Len(output) :
                 output[i] # cutWith => ~rangeOverlaps(output[i], cutWith)

C9_Witness ==
    /\ rpc = "done" /\ StrictlyInterior(toCut, cutWith)
    /\ toCut.baseArrayLayer > 0 /\ toCut.baseMipLevel > 0
    /\ numAreas = 5

\* C10: cutRange never returns more ranges than the output array holds.
C10_AtMostFive ==
    rpc = "done" => (numAreas <= OutputCapacity /\ Len(output) = numAreas)

C10_Witness ==
    rpc = "done" /\ numAreas = OutputCapacity

\* C11: rangeOverlaps is symmetric: two calls with the same two ranges in
\* exchanged order return the same result, for all ranges, empty ones too.
C11_Symmetric ==
    \A c, d \in overlapCalls :
        (c.a = d.b /\ c.b = d.a) => c.result = d.result

C11_Witness ==
    \E c, d \in overlapCalls :
        /\ c.a = d.b /\ c.b = d.a /\ c.a # c.b
        /\ c.a.baseArrayLayer + c.a.layerCount = c.b.baseArrayLayer
        /\ Positive(c.a) /\ Positive(c.b)
        /\ c.a.baseMipLevel = c.b.baseMipLevel
        /\ ~c.result /\ ~d.result

\* C12: for ranges with positive counts rangeOverlaps returns true exactly
\* when some (layer, mip) cell lies in both ranges; two ranges of which one
\* ends where the other starts on an axis do not overlap.
C12_OverlapIffSharedCell ==
    \A c \in overlapCalls :
        (Positive(c.a) /\ Positive(c.b))
            => /\ c.result = (Cells(c.a) \cap Cells(c.b) # {})
               /\ (\/ c.a.baseArrayLayer + c.a.layerCount = c.b.baseArrayLayer
                   \/ c.b.baseArrayLayer + c.b.layerCount = c.a.baseArrayLayer
                   \/ c.a.baseMipLevel + c.a.levelCount = c.b.baseMipLevel
                   \/ c.b.baseMipLevel + c.b.levelCount = c.a.baseMipLevel)
                    => ~c.result

C12_Witness ==
    \E c \in overlapCalls :
        /\ Positive(c.a) /\ Positive(c.b)
        /\ c.result /\ c.a # c.b
        /\ Cardinality(Cells(c.a) \cap Cells(c.b)) = 1
        /\ c.a.baseMipLevel + c.a.levelCount = c.b.baseMipLevel + 1
        /\ c.a.baseArrayLayer < c.b.baseArrayLayer

\* r lies within outer on both axes
Within(r, outer) ==
    /\ outer.baseArrayLayer <= r.baseArrayLayer
    /\ r.baseArrayLayer + r.layerCount <= outer.baseArrayLayer + outer.layerCount
    /\ outer.baseMipLevel <= r.baseMipLevel
    /\ r.baseMipLevel + r.levelCount <= outer.baseMipLevel + outer.levelCount

\* C22 (as claimed): for ranges with positive counts every range returned by
\* cutRange has a positive layer count and a positive level count and lies
\* within toCut on both axes.
C22_PiecesWithinToCut ==
    (rpc = "done" /\ Positive(toCut) /\ Positive(cutWith))
        => \A i \in 1..Len(output) :
              Positive(output[i]) /\ Within(output[i], toCut)

\* the layer-axis step emits no left and no right piece (lines 553-576)
NoLayerPiece ==
    LET leftCut == cutWith.baseArrayLayer - toCut.baseArrayLayer
        rightCut == (cutWith.baseArrayLayer + cutWith.layerCount) - toCut.baseArrayLayer
    IN  /\ ~(leftCut > 0 /\ leftCut < toCut.baseArrayLayer + toCut.layerCount)
        /\ ~(rightCut > 0 /\ rightCut < toCut.layerCount)

\* the mip-axis step, run on toCut, emits no top and no bottom piece
\* (lines 603-626)
NoLevelPiece ==
    LET topCut == cutWith.baseMipLevel - toCut.baseMipLevel
        bottomCut == (cutWith.baseMipLevel + cutWith.levelCount) - toCut.baseMipLevel
    IN  /\ ~(topCut > 0 /\ topCut < toCut.baseMipLevel + toCut.levelCount)
        /\ ~(bottomCut > 0 /\ bottomCut < toCut.levelCount)

\* the mip-axis step runs on toCut: the layers of toCut lie within those of
\* cutWith (lines 663-664)
LevelStepRuns ==
    /\ toCut.baseArrayLayer >= cutWith.baseArrayLayer
    /\ toCut.baseArrayLayer + toCut.layerCount
          <= cutWith.baseArrayLayer + cutWith.layerCount

\* C23: when the layer-axis step emits no left and no right piece and the
\* mip-axis step either does not run or emits no top and no bottom piece,
\* cutRange returns exactly one range, toCut; this is so whenever cutWith
\* covers toCut on both axes.
C23_NoCutYieldsToCut ==
    /\ (rpc = "done" /\ NoLayerPiece /\ (LevelStepRuns => NoLevelPiece))
          => (numAreas = 1 /\ output = << toCut >>)
    /\ (rpc = "done" /\ Within(toCut, cutWith))
          => (NoLayerPiece /\ LevelStepRuns /\ NoLevelPiece
              /\ numAreas = 1 /\ output = << toCut >>)

\* cutWith covers toCut and is larger on every side
C23_Witness ==
    /\ rpc = "done" /\ Positive(toCut) /\ Positive(cutWith)
    /\ cutWith.baseArrayLayer < toCut.baseArrayLayer
    /\ cutWith.baseMipLevel < toCut.baseMipLevel
    /\ toCut.baseArrayLayer + toCut.layerCount
          < cutWith.baseArrayLayer + cutWith.layerCount
    /\ toCut.baseMipLevel + toCut.levelCount
          < cutWith.baseMipLevel + cutWith.levelCount
    /\ output = << toCut >>

\* C24: for ranges with positive counts no range returned by cutRange
\* straddles the boundary of cutWith: each one lies within cutWith on both
\* axes or does not overlap it (rangeOverlaps), and at most one returned
\* range overlaps cutWith.
C24_NoPieceStraddlesCut ==
    (rpc = "done" /\ Positive(toCut) /\ Positive(cutWith))
        => /\ \A i \in 1..Len(output) :
                 \/ Within(output[i], cutWith)
                 \/ ~rangeOverlaps(output[i], cutWith)
           /\ Cardinality({ i \in 1..Len(output) :
                              rangeOverlaps(output[i], cutWith) }) <= 1

\* a cut along the mip axis only, by a cutWith with more layers than toCut:
\* three ranges, of which one overlaps cutWith and lies within it
C24_Witness ==
    /\ rpc = "done" /\ Positive(toCut) /\ Positive(cutWith)
    /\ numAreas = 3
    /\ cutWith.layerCount > toCut.layerCount
    /\ \E i \in 1..Len(output) :
          /\ rangeOverlaps(output[i], cutWith)
          /\ Within(output[i], cutWith)
          /\ output[i] # cutWith
          /\ \A j \in 1..Len(output) :
                j # i => ~rangeOverlaps(output[j], cutWith)

-----------------------------------------------------------------------------
(* ct::HardwareBufferManager: the cache of vertex declarations             *)
(* (BsVulkanUtility.cpp, lines 771-886), checked under SpecDecl.           *)

(* Bounds of the cache model. *)
MaxElements == 2
MaxCalls == 3

\* the VertexElement values of the model, told apart by their type
VertexElements == {"VET_FLOAT1", "VET_FLOAT2"}

\* List<VertexElement>: the lists of at most MaxElements elements
ElementLists ==
    UNION { [1..n -> VertexElements] : n \in 0..MaxElements }

\* GpuDeviceFlags: GDF_DEFAULT and the flag of device 0 (line 545)
DeviceMasks == {0, 1}

\* EqualFunction that compares the two keys by address: the key built by a
\* call is an object of its own
EqualFunction_ByAddress(lhs, rhs) ==
    FALSE

\* VertexDeclarationKey::EqualFunction::operator() (lines 788-807)
EqualFunction(lhs, rhs) ==
    IF Len(lhs) # Len(rhs) THEN FALSE
    ELSE \A i \in 1..Len(lhs) : ~(lhs[i] # rhs[i])

\* mCachedDeclarations.find(key) (line 848): the entries whose key the map
\* takes for equal to key. The map compares keys of equal hash with
\* EqualFunction; HashFunction (lines 779-786) folds the hashes of the
\* elements in order, so lists that EqualFunction equates hash alike.
find(key) ==
    { entry \in mCachedDeclarations : EqualFunction(entry.key, key) }

\* createVertexDeclarationInternal (lines 877-886) followed by initialize()
\* (line 853): the new VertexDeclaration
NewDeclaration(elements, deviceMask) ==
    [elements |-> elements, deviceMask |-> deviceMask, initialized |-> 1]

DeclInit ==
    /\ mCachedDeclarations = {}
    /\ declarations = << >>
    /\ declCalls = << >>
    /\ textureDescs = {} /\ bufferDescs = {}
    /\ poolAlive = TRUE /\ mTextures = << >> /\ mBuffers = << >>
    /\ heap = << >> /\ last = [kind |-> "none"]
    /\ toCut = NoRange /\ cutWith = NoRange /\ output = << >>
    /\ numAreas = 0 /\ rpc = "idle" /\ overlapCalls = {}
    /\ FieldUnused

\* createVertexDeclaration(elements, deviceMask) returning the cached
\* declaration (lines 846-850)
CreateVertexDeclarationCached(elements, deviceMask) ==
    /\ Len(declCalls) < MaxCalls
    /\ find(elements) # {}
    /\ \E entry \in find(elements) :
          declCalls' = Append(declCalls,
              [elements |-> elements, deviceMask |-> deviceMask,
               ret |-> entry.decl, created |-> FALSE])
    /\ UNCHANGED <<mCachedDeclarations, declarations>>
    /\ UNCHANGED <<rangeVars, poolVars, fieldVars>>

\* createVertexDeclaration(elements, deviceMask) constructing, initializing
\* and caching a declaration (lines 846-856)
CreateVertexDeclarationNew(elements, deviceMask) ==
    /\ Len(declCalls) < MaxCalls
    /\ find(elements) = {}
    /\ declarations' = Append(declarations, NewDeclaration(elements, deviceMask))
    /\ mCachedDeclarations' = mCachedDeclarations
          \cup { [key |-> elements, decl |-> Len(declarations) + 1] }
    /\ declCalls' = Append(declCalls,
          [elements |-> elements, deviceMask |-> deviceMask,
           ret |-> Len(declarations) + 1, created |-> TRUE])
    /\ UNCHANGED <<rangeVars, poolVars, fieldVars>>

DeclNext ==
    \/ \E elements \in ElementLists : \E deviceMask \in DeviceMasks :
          CreateVertexDeclarationCached(elements, deviceMask)
    \/ \E elements \in ElementLists : \E deviceMask \in DeviceMasks :
          CreateVertexDeclarationNew(elements, deviceMask)

SpecDecl == DeclInit /\ [][DeclNext]_vars

-----------------------------------------------------------------------------
(* Claims about the cache of vertex declarations, checked under SpecDecl.  *)

\* C25: the cache is keyed by the element list alone: two calls with equal
\* element lists return the same declaration, whatever their device masks;
\* a declaration is constructed only by the first call with its element
\* list and is initialized once; and an entry of the cache is never removed
\* or replaced: every call's element list stays mapped to the declaration
\* that call returned, one entry for each element list.
C25_CacheKeyedByElements ==
    /\ \A i, j \in 1..Len(declCalls) :
          declCalls[i].elements = declCalls[j].elements
             => declCalls[i].ret = declCalls[j].ret
    /\ \A j \in 1..Len(declCalls) :
          declCalls[j].created
             <=> ~ \E i \in 1..(j - 1) : declCalls[i].elements = declCalls[j].elements
    /\ \A d \in 1..Len(declarations) : declarations[d].initialized = 1
    /\ \A d, e \in 1..Len(declarations) :
          declarations[d].elements = declarations[e].elements => d = e
    /\ \A i \in 1..Len(declCalls) :
          /\ [key |-> declCalls[i].elements, decl |-> declCalls[i].ret]
                \in mCachedDeclarations
          /\ declarations[declCalls[i].ret].elements = declCalls[i].elements
    /\ \A a, b \in mCachedDeclarations : a.key = b.key => a = b

\* three calls, the first and the last with the same two elements and
\* different device masks: the last one returns the declaration of the
\* first, which still has the first call's device mask
C25_Witness ==
    /\ Len(declCalls) = 3
    /\ declCalls[1].elements = declCalls[3].elements
    /\ Len(declCalls[1].elements) = 2
    /\ declCalls[2].elements # declCalls[1].elements
    /\ Len(declCalls[2].elements) = 2
    /\ declCalls[1].deviceMask # declCalls[3].deviceMask
    /\ declCalls[1].created /\ declCalls[2].created /\ ~declCalls[3].created
    /\ declCalls[3].ret = declCalls[1].ret
    /\ declarations[declCalls[3].ret].deviceMask = declCalls[1].deviceMask
    /\ Cardinality(mCachedDeclarations) = 2

-----------------------------------------------------------------------------
(* InspectableField (InspectableField.cs): the parent and children links,  *)
(* checked under SpecField.                                                *)

(* Bounds of the field model. *)
MaxFields == 3
MaxChildren == 2

FieldIds == 1..MaxFields

\* a null InspectableField reference
NoField == 0

\* List<InspectableField>.Remove(child): removes the first occurrence
ListRemove(list, child) ==
    IF \E i \in 1..Len(list) : list[i] = child
    THEN LET k == CHOOSE i \in 1..Len(list) :
                     list[i] = child /\ \A j \in 1..(i - 1) : list[j] # child
         IN  SubSeq(list, 1, k - 1) \o SubSeq(list, k + 1, Len(list))
    ELSE list

\* this.RemoveChild(child) (lines 62-66) on the links st
RemoveChildOf(st, this, child) ==
    [st EXCEPT !.children[this] = ListRemove(@, child),
               !.parent[child] = NoField]

\* this.AddChild(child) (lines 46-56) on the links st
AddChildOf(st, this, child) ==
    IF st.parent[child] = this THEN st
    ELSE LET st1 == IF st.parent[child] # NoField
                    THEN RemoveChildOf(st, st.parent[child], child)
                    ELSE st
         IN  [st1 EXCEPT !.children[this] = Append(@, child),
                         !.parent[child] = this]

RECURSIVE DestroyOf(_, _, _)
RECURSIVE DestroyChildren(_, _, _, _)
\* this.Destroy() (lines 160-172) on the links st; active are the fields
\* whose Destroy() is on the call stack. A field in active has not cleared
\* its children yet, so a call that reaches it again descends the same way
\* once more, without end: overflow.
DestroyOf(st, this, active) ==
    IF this \in active THEN [st EXCEPT !.overflow = TRUE]
    ELSE LET st1 == DestroyChildren(st, st.children[this], 1, active \cup {this})
             st2 == [st1 EXCEPT !.children[this] = << >>]
         IN  IF st1.overflow THEN st1
             ELSE IF st2.parent[this] # NoField
                  THEN RemoveChildOf(st2, st2.parent[this], this)
                  ELSE st2

\* the loop of lines 164-166 over childrenCopy from index i on
DestroyChildren(st, childrenCopy, i, active) ==
    IF i > Len(childrenCopy) \/ st.overflow THEN st
    ELSE DestroyChildren(DestroyOf(st, childrenCopy[i], active),
                         childrenCopy, i + 1, active)

\* the links of the current state
Links == [children |-> children, parent |-> parent, overflow |-> FALSE]

\* the fields after their constructors (lines 18-19, 34-40)
FieldInit ==
    /\ children = [f \in FieldIds |-> << >>]
    /\ parent = [f \in FieldIds |-> NoField]
    /\ destroyedLast = NoField
    /\ stackOverflow = FALSE
    /\ textureDescs = {} /\ bufferDescs = {}
    /\ poolAlive = TRUE /\ mTextures = << >> /\ mBuffers = << >>
    /\ heap = << >> /\ last = [kind |-> "none"]
    /\ toCut = NoRange /\ cutWith = NoRange /\ output = << >>
    /\ numAreas = 0 /\ rpc = "idle" /\ overlapCalls = {}
    /\ DeclUnused

\* this.AddChild(child), called by a subclass
AddChild(this, child) ==
    /\ ~stackOverflow
    /\ parent[child] # this => Len(children[this]) < MaxChildren
    /\ children' = AddChildOf(Links, this, child).children
    /\ parent' = AddChildOf(Links, this, child).parent
    /\ destroyedLast' = NoField
    /\ UNCHANGED stackOverflow
    /\ UNCHANGED <<rangeVars, poolVars, declVars>>

\* this.RemoveChild(child), called by a subclass
RemoveChild(this, child) ==
    /\ ~stackOverflow
    /\ children' = RemoveChildOf(Links, this, child).children
    /\ parent' = RemoveChildOf(Links, this, child).parent
    /\ destroyedLast' = NoField
    /\ UNCHANGED stackOverflow
    /\ UNCHANGED <<rangeVars, poolVars, declVars>>

\* this.Destroy() that returns
Destroy(this) ==
    /\ ~stackOverflow
    /\ ~DestroyOf(Links, this, {}).overflow
    /\ children' = DestroyOf(Links, this, {}).children
    /\ parent' = DestroyOf(Links, this, {}).parent
    /\ destroyedLast' = this
    /\ UNCHANGED stackOverflow
    /\ UNCHANGED <<rangeVars, poolVars, declVars>>

\* this.Destroy() on links with a cycle below this: the recursion of line
\* 166 does not end and the process dies of a stack overflow. No call
\* follows, so the links are kept as they were when Destroy() was called.
DestroyOverflows(this) ==
    /\ ~stackOverflow
    /\ DestroyOf(Links, this, {}).overflow
    /\ stackOverflow' = TRUE
    /\ destroyedLast' = NoField
    /\ UNCHANGED <<children, parent>>
    /\ UNCHANGED <<rangeVars, poolVars, declVars>>

FieldNext ==
    \/ \E this, child \in FieldIds : AddChild(this, child)
    \/ \E this, child \in FieldIds : RemoveChild(this, child)
    \/ \E this \in FieldIds : Destroy(this)
    \/ \E this \in FieldIds : DestroyOverflows(this)

SpecField == FieldInit /\ [][FieldNext]_vars

-----------------------------------------------------------------------------
(* Claims about InspectableField, checked under SpecField.                 *)

\* c is in the children list of p
IsChildOf(c, p) == \E i \in 1..Len(children[p]) : children[p][i] = c

\* C26 (as claimed): after any sequence of AddChild, RemoveChild and Destroy
\* calls that returned, a field c is in the children list of p exactly when
\* the parent of c is p, no field is twice in a children list, and right
\* after c.Destroy() the field c has no children, no parent and is in no
\* children list.
C26_LinksAgree ==
    ~stackOverflow =>
        /\ \A c, p \in FieldIds : IsChildOf(c, p) <=> parent[c] = p
        /\ \A p \in FieldIds : \A i, j \in 1..Len(children[p]) :
              children[p][i] = children[p][j] => i = j
        /\ destroyedLast # NoField =>
              /\ children[destroyedLast] = << >>
              /\ parent[destroyedLast] = NoField
              /\ \A p \in FieldIds : ~IsChildOf(destroyedLast, p)

====
